---------------------------- MODULE Spec2Model ----------------------------
(***************************************************************************)
(* Model of the goulash/matcher package: the glob validator Check, the     *)
(* line normalizer Clean, and the Matcher / Worker pattern lists.          *)
(*                                                                         *)
(* A Go string is modelled as a sequence of one-character strings, e.g.    *)
(* the Go literal "a/b" is << "a", "/", "b" >>.  All characters used are   *)
(* ASCII, so a rune is one byte and one column.                            *)
(***************************************************************************)
EXTENDS Integers, Sequences, FiniteSets, TLC

(***************************************************************************)
(* Bounds of the model.                                                    *)
(***************************************************************************)
\* longest input string given to Check / Clean in SpecPure
MaxLen == 4
\* longest global or local list that Add builds, and longest local list
\* that AddFile still extends
MaxList == 2
\* most characters after the opening '[' of an input of SpecClass
MaxClassLen == 5

(***************************************************************************)
(* Characters and code points.                                             *)
(***************************************************************************)
\* the characters the pure-function inputs are built from
PureAlphabet == { "a", "b", "[", "]", "-", "\\", "*", " ", "#" }

\* the characters the bodies of the character classes of SpecClass are built from
ClassAlphabet == { "a", "b", "-", "\\", "]" }

\* the code point of a character (Go: the rune value)
CodePoint(c) ==
    CASE c = " "  -> 32
      [] c = "#"  -> 35
      [] c = "*"  -> 42
      [] c = "-"  -> 45
      [] c = "."  -> 46
      [] c = "/"  -> 47
      [] c = "?"  -> 63
      [] c = "["  -> 91
      [] c = "\\" -> 92
      [] c = "]"  -> 93
      [] c = "^"  -> 94
      [] c = "a"  -> 97
      [] c = "b"  -> 98
      [] c = "c"  -> 99
      [] c = "r"  -> 114
      [] c = "s"  -> 115
      [] c = "v"  -> 118
      [] c = "w"  -> 119
      [] c = "x"  -> 120
      [] c = "y"  -> 121
      [] c = "z"  -> 122

\* case ' ', '\t', '\n'  (only the space is in the alphabets used)
IsSpace(c) == c \in { " ", "\t", "\n" }

\* s[i:] of Go, for a 0-based byte offset i
Drop(s, i) == SubSeq(s, i + 1, Len(s))

\* strings.Contains(s, "/")
ContainsSep(s) == \E i \in 1..Len(s) : s[i] = "/"

(***************************************************************************)
(* Check: the validator.  CheckState is the tuple of Check's locals        *)
(* (state, next, last); err is "nil" while the loop goes on.               *)
(***************************************************************************)
CheckInit == [ state |-> "Initial", next |-> "Initial", last |-> 0, err |-> "nil" ]

\* case Regular:
RegularStep(s, r) ==
    CASE r = "["    -> [ s EXCEPT !.state = "ClassBegin" ]
      [] r = "*"    -> [ s EXCEPT !.state = "Star" ]
      [] r = "\\"   -> [ s EXCEPT !.state = "Escape", !.next = "Regular" ]
      [] IsSpace(r) -> [ s EXCEPT !.state = "Whitespace" ]
      [] OTHER      -> s

\* case ClassMiddle:
ClassMiddleStep(s, r) ==
    CASE r = "\\" -> [ s EXCEPT !.state = "Escape", !.next = "ClassMiddle" ]
      [] r = "]"  -> [ s EXCEPT !.state = "Regular" ]
      [] r = "-"  -> [ s EXCEPT !.state = "ClassRange" ]
      [] OTHER    -> [ s EXCEPT !.last = CodePoint(r) ]

\* one iteration of "for _, r := range glob": the switch on state
CheckStep(s, r) ==
    CASE s.state = "Initial" ->
            RegularStep([ s EXCEPT !.state = "Regular" ], r)
      [] s.state = "Regular" ->
            RegularStep(s, r)
      [] s.state = "ClassBegin" ->
            CASE r = "]"  -> [ s EXCEPT !.err = "ErrEmptyClass" ]
              [] r = "-"  -> [ s EXCEPT !.err = "ErrUnexpectedRune" ]
              [] r = "\\" -> [ s EXCEPT !.state = "Escape", !.next = "ClassRequire" ]
              [] OTHER    -> [ s EXCEPT !.last = CodePoint(r), !.state = "ClassMiddle" ]
      [] s.state = "ClassRequire" ->
            IF r = "-"
            THEN [ s EXCEPT !.err = "ErrUnexpectedRune" ]
            ELSE ClassMiddleStep([ s EXCEPT !.state = "ClassMiddle" ], r)
      [] s.state = "ClassMiddle" ->
            ClassMiddleStep(s, r)
      [] s.state = "ClassRange" ->
            IF r \in { "-", "\\", "]" }
            THEN [ s EXCEPT !.err = "ErrUnexpectedRune" ]
            ELSE IF CodePoint(r) - s.last < 0
                 THEN [ s EXCEPT !.err = "ErrNegativeRange" ]
                 ELSE [ s EXCEPT !.state = "ClassRequire" ]
      [] s.state = "Escape" ->
            [ s EXCEPT !.state = s.next ]
      [] s.state = "Star" ->
            IF r = "*"
            THEN [ s EXCEPT !.state = "DualStar" ]
            ELSE [ s EXCEPT !.state = "Regular" ]
      [] s.state = "DualStar" ->
            [ s EXCEPT !.err = "ErrDualStar" ]
      [] s.state = "Whitespace" ->
            IF IsSpace(r) THEN s ELSE [ s EXCEPT !.state = "Regular" ]

\* the switch on state after the loop
CheckFinal(state) ==
    CASE state = "Initial"                                    -> "ErrEmptyGlob"
      [] state \in { "ClassBegin", "ClassMiddle", "ClassRange" } -> "ErrIncompleteClass"
      [] state = "Escape"                                     -> "ErrTrailingEscape"
      [] state = "Whitespace"                                 -> "ErrTrailingWhitespace"
      [] OTHER                                                -> "nil"

\* a Check loop whose column starts at 0 and so counts from 1
RECURSIVE CheckLoopFromOne(_, _, _)
CheckLoopFromOne(glob, i, s) ==
    IF i > Len(glob)
    THEN [ err |-> CheckFinal(s.state), column |-> Len(glob) ]
    ELSE IF CheckStep(s, glob[i]).err # "nil"
         THEN [ err |-> CheckStep(s, glob[i]).err, column |-> i ]
         ELSE CheckLoopFromOne(glob, i + 1, CheckStep(s, glob[i]))

\* the loop of Check from rune i on (1-based); column is i - 1 when rune i fails
RECURSIVE CheckLoop(_, _, _)
CheckLoop(glob, i, s) ==
    IF i > Len(glob)
    THEN [ err |-> CheckFinal(s.state), column |-> Len(glob) - 1 ]
    ELSE LET t == CheckStep(s, glob[i])
         IN  IF t.err # "nil"
             THEN [ err |-> t.err, column |-> i - 1 ]
             ELSE CheckLoop(glob, i + 1, t)

\* Check(glob): err is "nil" or the Err of the BadPatternError, with its Column
Check(glob) == CheckLoop(glob, 1, CheckInit)

\* Check(glob) == nil
CheckOk(glob) == Check(glob).err = "nil"

(***************************************************************************)
(* Clean: the line normalizer.  buf and sp are its two bytes.Buffer.       *)
(***************************************************************************)
CleanInit == [ state |-> "Initial", buf |-> << >>, sp |-> << >> ]

\* case Regular:
CleanRegular(s, r) ==
    CASE IsSpace(r) -> [ s EXCEPT !.state = "Whitespace", !.sp = Append(s.sp, r) ]
      [] r = "\\"   -> [ s EXCEPT !.state = "Escape" ]
      [] OTHER      -> [ s EXCEPT !.buf = Append(s.buf, r) ]

\* one iteration of "for _, r := range s" (the '#' return is taken in CleanLoop)
CleanStep(s, r) ==
    CASE s.state = "Initial" ->
            CleanRegular([ s EXCEPT !.state = "Regular" ], r)
      [] s.state = "Regular" ->
            CleanRegular(s, r)
      [] s.state = "Escape" ->
            [ s EXCEPT !.state = "Regular", !.buf = s.buf \o << "\\", r >> ]
      [] s.state = "Whitespace" ->
            IF IsSpace(r)
            THEN [ s EXCEPT !.sp = Append(s.sp, r) ]
            ELSE [ s EXCEPT !.state = "Regular", !.buf = s.buf \o s.sp, !.sp = << >> ]

RECURSIVE CleanLoop(_, _, _)
CleanLoop(str, i, s) ==
    IF i > Len(str)
    THEN s.buf
    ELSE IF s.state = "Initial" /\ str[i] = "#"
         THEN << >>
         ELSE CleanLoop(str, i + 1, CleanStep(s, str[i]))

\* Clean(s)
Clean(str) == CleanLoop(str, 1, CleanInit)
(***************************************************************************)
(* path/filepath on a Unix system, as the package calls it.                *)
(***************************************************************************)
\* the path elements between separators, empty ones included
RECURSIVE SplitSep(_, _, _)
SplitSep(p, i, cur) ==
    IF i > Len(p)
    THEN << cur >>
    ELSE IF p[i] = "/"
         THEN << cur >> \o SplitSep(p, i + 1, << >>)
         ELSE SplitSep(p, i + 1, Append(cur, p[i]))

\* the elements kept by filepath.Clean: "" and "." dropped, ".." backtracks
RECURSIVE CleanElems(_, _, _, _)
CleanElems(elems, i, out, rooted) ==
    IF i > Len(elems)
    THEN out
    ELSE CASE elems[i] = << >> \/ elems[i] = << "." >> ->
                CleanElems(elems, i + 1, out, rooted)
           [] elems[i] = << ".", "." >> ->
                IF Len(out) > 0 /\ out[Len(out)] # << ".", "." >>
                THEN CleanElems(elems, i + 1, SubSeq(out, 1, Len(out) - 1), rooted)
                ELSE IF rooted
                     THEN CleanElems(elems, i + 1, out, rooted)
                     ELSE CleanElems(elems, i + 1, Append(out, elems[i]), rooted)
           [] OTHER ->
                CleanElems(elems, i + 1, Append(out, elems[i]), rooted)

\* elements joined by "/"
RECURSIVE JoinSep(_, _)
JoinSep(elems, i) ==
    IF i > Len(elems)
    THEN << >>
    ELSE IF i = Len(elems)
         THEN elems[i]
         ELSE elems[i] \o << "/" >> \o JoinSep(elems, i + 1)

\* what filepath.Clean returns for the cleaned elements joined as body
CleanResult(rooted, body) ==
    IF rooted
    THEN << "/" >> \o body
    ELSE IF body = << >> THEN << "." >> ELSE body

\* filepath.Clean(path): never the empty string
PathClean(p) ==
    IF p = << >>
    THEN << "." >>
    ELSE CleanResult(p[1] = "/",
                     JoinSep(CleanElems(SplitSep(p, 1, << >>), 1, << >>, p[1] = "/"), 1))

\* filepath.IsAbs(path)
IsAbs(p) == Len(p) > 0 /\ p[1] = "/"

\* filepath.Join(a, b): empty elements are ignored, the result is Cleaned
PathJoin(a, b) ==
    IF a = << >> /\ b = << >>
    THEN << >>
    ELSE PathClean(IF a = << >> THEN b
                   ELSE IF b = << >> THEN a
                   ELSE a \o << "/" >> \o b)

\* path without its trailing separators
RECURSIVE StripTrailingSep(_)
StripTrailingSep(p) ==
    IF Len(p) > 0 /\ p[Len(p)] = "/"
    THEN StripTrailingSep(SubSeq(p, 1, Len(p) - 1))
    ELSE p

\* the 0-based index of the last separator of p[:i], or -1
RECURSIVE LastSep(_, _)
LastSep(p, i) ==
    IF i = 0 THEN -1 ELSE IF p[i] = "/" THEN i - 1 ELSE LastSep(p, i - 1)

\* the last element of q, a path without trailing separators
LastElem(q) ==
    IF Drop(q, LastSep(q, Len(q)) + 1) = << >>
    THEN << "/" >>
    ELSE Drop(q, LastSep(q, Len(q)) + 1)

\* filepath.Base(path)
PathBase(p) == IF p = << >> THEN << "." >> ELSE LastElem(StripTrailingSep(p))

\* filepath.Dir(path)
PathDir(p) == PathClean(SubSeq(p, 1, LastSep(p, Len(p)) + 1))

\* os.Getwd(), which filepath.Abs joins in front of a relative path
Getwd == << "/", "a" >>

\* filepath.Abs(path)
PathAbs(p) == IF IsAbs(p) THEN PathClean(p) ELSE PathJoin(Getwd, p)

(***************************************************************************)
(* filepath.Match of the Go standard library (Unix, Go 1.16 and later),    *)
(* the glob primitive that match() hands every stored pattern to.  A       *)
(* result is [ matched, err ] with err "nil" or "ErrBadPattern".           *)
(***************************************************************************)
\* the 1-based index of the first rune of p that is not '*'
RECURSIVE SkipStars(_, _)
SkipStars(p, i) ==
    IF i <= Len(p) /\ p[i] = "*" THEN SkipStars(p, i + 1) ELSE i

\* scanChunk's Scan loop: the 1-based index at which the chunk ends
RECURSIVE ScanEnd(_, _, _)
ScanEnd(p, i, inrange) ==
    IF i > Len(p)
    THEN i
    ELSE CASE p[i] = "\\" -> ScanEnd(p, IF i + 1 <= Len(p) THEN i + 2 ELSE i + 1, inrange)
           [] p[i] = "["  -> ScanEnd(p, i + 1, TRUE)
           [] p[i] = "]"  -> ScanEnd(p, i + 1, FALSE)
           [] p[i] = "*"  -> IF inrange THEN ScanEnd(p, i + 1, inrange) ELSE i
           [] OTHER       -> ScanEnd(p, i + 1, inrange)

\* scanChunk: body is the pattern after its leading stars, e the chunk's end
ScanCut(star, body, e) ==
    [ star  |-> star,
      chunk |-> SubSeq(body, 1, e - 1),
      rest  |-> SubSeq(body, e, Len(body)) ]

ScanBody(star, body) == ScanCut(star, body, ScanEnd(body, 1, FALSE))

\* scanChunk(pattern)
ScanChunk(pattern) ==
    ScanBody(SkipStars(pattern, 1) > 1,
             SubSeq(pattern, SkipStars(pattern, 1), Len(pattern)))

\* getEsc after its test of the first byte: c is the chunk past a backslash
GetEscRune(c) ==
    IF Len(c) = 0
    THEN [ r |-> 0, nchunk |-> << >>, err |-> "ErrBadPattern" ]
    ELSE [ r      |-> CodePoint(c[1]),
           nchunk |-> Drop(c, 1),
           err    |-> IF Len(c) = 1 THEN "ErrBadPattern" ELSE "nil" ]

\* getEsc(chunk): r is a code point
GetEsc(chunk) ==
    IF Len(chunk) = 0 \/ chunk[1] = "-" \/ chunk[1] = "]"
    THEN [ r |-> 0, nchunk |-> << >>, err |-> "ErrBadPattern" ]
    ELSE GetEscRune(IF chunk[1] = "\\" THEN Drop(chunk, 1) ELSE chunk)

\* matchChunk's "parse all ranges" loop, for the rune r of the name:
\* ClassLoop is one turn of it, ClassLo the turn once lo is read, ClassHi
\* once hi is
RECURSIVE ClassLoop(_, _, _, _)
ClassHi(lo, hi, r, match, nrange) ==
    IF hi.err # "nil"
    THEN [ chunk |-> << >>, match |-> FALSE, err |-> hi.err ]
    ELSE ClassLoop(hi.nchunk, r, match \/ (lo.r <= r /\ r <= hi.r), nrange + 1)

ClassLo(lo, r, match, nrange) ==
    IF lo.err # "nil"
    THEN [ chunk |-> << >>, match |-> FALSE, err |-> lo.err ]
    ELSE ClassHi(lo,
                 IF lo.nchunk[1] = "-" THEN GetEsc(Drop(lo.nchunk, 1)) ELSE lo,
                 r, match, nrange)

ClassLoop(chunk, r, match, nrange) ==
    IF Len(chunk) > 0 /\ chunk[1] = "]" /\ nrange > 0
    THEN [ chunk |-> Drop(chunk, 1), match |-> match, err |-> "nil" ]
    ELSE ClassLo(GetEsc(chunk), r, match, nrange)

\* matchChunk's loop "for len(chunk) > 0": MatchChunkLoop is its head,
\* ChunkCase the switch on chunk[0], with failed already updated
RECURSIVE MatchChunkLoop(_, _, _)
\* case '[' once the ranges are parsed into cl
ClassParsed(cl, s, failed, negated) ==
    IF cl.err # "nil"
    THEN [ rest |-> << >>, ok |-> FALSE, err |-> cl.err ]
    ELSE MatchChunkLoop(cl.chunk, s, failed \/ (cl.match = negated))

\* case '[': c is the chunk after '[', r the rune read from the name
ClassCase(c, r, s, failed) ==
    ClassParsed(ClassLoop(IF Len(c) > 0 /\ c[1] = "^" THEN Drop(c, 1) ELSE c,
                          r, FALSE, 0),
                s, failed, Len(c) > 0 /\ c[1] = "^")

\* case '\\' and default: c is the chunk past a backslash
LiteralCase(c, s, failed) ==
    IF Len(c) = 0
    THEN [ rest |-> << >>, ok |-> FALSE, err |-> "ErrBadPattern" ]
    ELSE IF failed
         THEN MatchChunkLoop(Drop(c, 1), s, TRUE)
         ELSE MatchChunkLoop(Drop(c, 1), Drop(s, 1), c[1] # s[1])

ChunkCase(chunk, s, failed) ==
    CASE chunk[1] = "[" ->
            ClassCase(Drop(chunk, 1),
                      IF failed THEN 0 ELSE CodePoint(s[1]),
                      IF failed THEN s ELSE Drop(s, 1),
                      failed)
      [] chunk[1] = "?" ->
            IF failed
            THEN MatchChunkLoop(Drop(chunk, 1), s, TRUE)
            ELSE MatchChunkLoop(Drop(chunk, 1), Drop(s, 1), s[1] = "/")
      [] OTHER ->
            LiteralCase(IF chunk[1] = "\\" THEN Drop(chunk, 1) ELSE chunk, s, failed)

MatchChunkLoop(chunk, s, failed) ==
    IF Len(chunk) = 0
    THEN IF failed
         THEN [ rest |-> << >>, ok |-> FALSE, err |-> "nil" ]
         ELSE [ rest |-> s, ok |-> TRUE, err |-> "nil" ]
    ELSE ChunkCase(chunk, s, failed \/ Len(s) = 0)

\* matchChunk(chunk, s)
MatchChunk(chunk, s) == MatchChunkLoop(chunk, s, FALSE)

\* the syntax check of the unmatched remainder of the pattern
RECURSIVE RemainderErr(_)
RemainderNext(mc, rest) == IF mc.err # "nil" THEN mc.err ELSE RemainderErr(rest)

RemainderChunk(sc) == RemainderNext(MatchChunk(sc.chunk, << >>), sc.rest)

RemainderErr(pattern) ==
    IF Len(pattern) = 0 THEN "nil" ELSE RemainderChunk(ScanChunk(pattern))

\* the loops of filepath.Match: MatchLoop is "Pattern:", StarLoop the loop
\* "Look for match skipping i+1 bytes" at 0-based offset i
RECURSIVE MatchLoop(_, _)
RECURSIVE StarLoop(_, _, _, _)
\* StarLoop once matchChunk(chunk, name[i+1:]) has returned mc
StarTried(mc, chunk, rest, name, i) ==
    IF mc.ok
    THEN IF Len(rest) = 0 /\ Len(mc.rest) > 0
         THEN StarLoop(chunk, rest, name, i + 1)
         ELSE MatchLoop(rest, mc.rest)
    ELSE IF mc.err # "nil"
         THEN [ matched |-> FALSE, err |-> mc.err ]
         ELSE StarLoop(chunk, rest, name, i + 1)

StarLoop(chunk, rest, name, i) ==
    IF i < Len(name) /\ name[i + 1] # "/"
    THEN StarTried(MatchChunk(chunk, Drop(name, i + 1)), chunk, rest, name, i)
    ELSE [ matched |-> FALSE, err |-> RemainderErr(rest) ]

\* MatchLoop once matchChunk(chunk, name) has returned mc
ChunkTried(mc, sc, name) ==
    IF mc.ok /\ (Len(mc.rest) = 0 \/ Len(sc.rest) > 0)
    THEN MatchLoop(sc.rest, mc.rest)
    ELSE IF mc.err # "nil"
         THEN [ matched |-> FALSE, err |-> mc.err ]
         ELSE IF sc.star
              THEN StarLoop(sc.chunk, sc.rest, name, 0)
              ELSE [ matched |-> FALSE, err |-> RemainderErr(sc.rest) ]

\* MatchLoop once scanChunk(pattern) has returned sc
ChunkScanned(sc, name) ==
    IF sc.star /\ sc.chunk = << >>
    THEN [ matched |-> ~ContainsSep(name), err |-> "nil" ]
    ELSE ChunkTried(MatchChunk(sc.chunk, name), sc, name)

MatchLoop(pattern, name) ==
    IF Len(pattern) = 0
    THEN [ matched |-> Len(name) = 0, err |-> "nil" ]
    ELSE ChunkScanned(ScanChunk(pattern), name)

\* filepath.Match(pattern, name)
FilepathMatch(pattern, name) == MatchLoop(pattern, name)

(***************************************************************************)
(* match, matchAll, add, addAll: the helpers of matcher.go.                *)
(***************************************************************************)
\* what match does with the result m of filepath.Match: a panic on an error
MatchVerdict(m) ==
    IF m.err # "nil"
    THEN "panic"
    ELSE IF m.matched THEN "true" ELSE "false"

\* match(pattern, s): "true", "false", or "panic"
Match(pattern, s) ==
    IF pattern = << >>
    THEN "false"
    ELSE MatchVerdict(FilepathMatch(pattern,
                                    IF ContainsSep(pattern) THEN s ELSE PathBase(s)))

\* matchAll(patterns, s) from pattern i on: the first pattern that matches
\* returns true, a panic on the way ends the call
RECURSIVE MatchAllFrom(_, _, _)
MatchAllNext(m, patterns, i, s) ==
    IF m = "false" THEN MatchAllFrom(patterns, i + 1, s) ELSE m

MatchAllFrom(patterns, i, s) ==
    IF i > Len(patterns)
    THEN "false"
    ELSE MatchAllNext(Match(patterns[i], s), patterns, i, s)

MatchAll(patterns, s) == MatchAllFrom(patterns, 1, s)

\* add(list, glob) once Check(glob) has returned c, without the test for a
\* path separator
AddSkipsSeparatorTest(list, glob, c) ==
    IF c.err # "nil"
    THEN [ list |-> list, err |-> c.err ]
    ELSE [ list |-> Append(list, glob), err |-> "nil" ]

\* add(list, glob) once Check(glob) has returned c
AddChecked(list, glob, c) ==
    IF c.err # "nil"
    THEN [ list |-> list, err |-> c.err ]
    ELSE IF ContainsSep(glob)
         THEN [ list |-> list, err |-> "ErrGlobIsPath" ]
         ELSE [ list |-> Append(list, glob), err |-> "nil" ]

\* add(list, glob): the list afterwards and the error returned
Add(list, glob) == AddChecked(list, glob, Check(glob))

\* addAll(list, globs) from glob i on: stops at the first error
RECURSIVE AddAllFrom(_, _, _)
AddAllNext(a, globs, i) ==
    IF a.err # "nil" THEN a ELSE AddAllFrom(a.list, globs, i + 1)

AddAllFrom(list, globs, i) ==
    IF i > Len(globs)
    THEN [ list |-> list, err |-> "nil" ]
    ELSE AddAllNext(Add(list, globs[i]), globs, i)

\* an addAll that appends nothing when a glob of the batch is rejected
AddAllOrNothing(list, globs) ==
    IF AddAllFrom(list, globs, 1).err # "nil"
    THEN [ list |-> list, err |-> AddAllFrom(list, globs, 1).err ]
    ELSE AddAllFrom(list, globs, 1)

\* addAll(list, globs)
AddAll(list, globs) == AddAllFrom(list, globs, 1)

(***************************************************************************)
(* The file system the package reads: a few directories, the config files  *)
(* named "c" in them, and one pattern file "l".                            *)
(***************************************************************************)
\* the name given to New(config) when it is not empty
ConfigName == << "c" >>

\* os.Open + bufio.Scanner on an absolute path: the error of Open, and the
\* lines sc.Text() yields
ReadFile(abs) ==
    CASE abs = << "/", "c" >> ->
            [ err |-> "nil", lines |-> << << "r" >> >> ]
      [] abs = << "/", "a", "/", "c" >> ->
            [ err |-> "nil", lines |-> << << "x", "/", "y" >>, << "b", "\\", "/" >> >> ]
      [] abs = << "/", "a", "/", "b", "/", "c" >> ->
            [ err |-> "ErrPermission", lines |-> << >> ]
      [] abs = << "/", "[", "/", "c" >> ->
            [ err |-> "nil", lines |-> << << "s" >>, << "x", "/", "y" >> >> ]
      [] abs = << "/", "a", "/", "l" >> ->
            [ err |-> "nil",
              lines |-> << << "#", "x" >>, << " " >>, << "v" >>, << "[" >>, << "w" >> >> ]
      [] OTHER ->
            [ err |-> "ErrNotExist", lines |-> << >> ]

\* os.IsNotExist(err)
IsNotExist(err) == err = "ErrNotExist"

\* the string AddFile stores for the normalized, checked line s
StoredPattern(base, s) == IF ContainsSep(s) THEN PathJoin(base, s) ELSE s

\* the loop "for sc.Scan()" of AddFile from line i on (1-based):
\* AddFileLine is its body once s = Clean(sc.Text()), AddFileChecked once
\* c = Check(s)
RECURSIVE AddFileLoop(_, _, _, _)
\* an AddFileChecked whose Line counts from 0
AddFileCheckedFromZero(local, base, lines, i, s, c) ==
    IF c.err # "nil"
    THEN [ local |-> local, err |-> c.err, line |-> i - 1, column |-> c.column ]
    ELSE AddFileLoop(Append(local, StoredPattern(base, s)), base, lines, i + 1)

AddFileChecked(local, base, lines, i, s, c) ==
    IF c.err # "nil"
    THEN [ local |-> local, err |-> c.err, line |-> i, column |-> c.column ]
    ELSE AddFileLoop(Append(local, StoredPattern(base, s)), base, lines, i + 1)

AddFileLine(local, base, lines, i, s) ==
    IF s = << >>
    THEN AddFileLoop(local, base, lines, i + 1)
    ELSE AddFileChecked(local, base, lines, i, s, Check(s))

AddFileLoop(local, base, lines, i) ==
    IF i > Len(lines)
    THEN [ local |-> local, err |-> "nil", line |-> -1, column |-> -1 ]
    ELSE AddFileLine(local, base, lines, i, Clean(lines[i]))

\* AddFile once abs = filepath.Abs(path)
AddFileAbs(local, abs) ==
    IF ReadFile(abs).err # "nil"
    THEN [ local |-> local, err |-> ReadFile(abs).err, line |-> -1, column |-> -1 ]
    ELSE AddFileLoop(local, PathDir(abs), ReadFile(abs).lines, 1)

\* pe.File = path, set on the BadPatternError that r carries (Line >= 0)
AddFileNamed(r, path) ==
    [ local |-> r.local, err |-> r.err, line |-> r.line, column |-> r.column,
      file |-> IF r.line >= 0 THEN path ELSE << >> ]

\* w.AddFile(path) on the local list: the list afterwards, the error, and
\* the Line, Column and File of a BadPatternError
AddFile(local, path) == AddFileNamed(AddFileAbs(local, PathAbs(path)), path)

(***************************************************************************)
(* NewWorker, Worker.Matches and Matcher.Matches as functions of the       *)
(* state they read.                                                        *)
(***************************************************************************)
\* what m.ErrHandler is: unset, a handler that returns nil, or one that
\* returns the error it was given
Handlers == { "nil", "ignore", "fail" }

\* a walk that drops what m.ErrHandler returns
HandlerResultDropped(handler, err) == "nil"

\* err = m.ErrHandler(err), when the walk calls it
HandledErr(handler, err) ==
    IF err # "nil" /\ ~IsNotExist(err) /\ handler # "nil"
    THEN IF handler = "fail" THEN err ELSE "nil"
    ELSE "nil"

\* dir = filepath.Clean(filepath.Join(dir, ".."))
ParentDir(dir) == PathClean(PathJoin(dir, << ".", "." >>))

\* if dir == "/" { break }, made on the parent directory up
WalkEnds(up) == up = << "/" >>

\* the loop "for { ... }" of NewWorker from directory dir on; visited lists
\* the directories whose config file AddFile was called on.  WalkLoaded is
\* the body once AddFile has returned r.
RECURSIVE Walk(_, _, _, _, _)
WalkLoaded(r, up, visited, cfg, handler) ==
    IF HandledErr(handler, r.err) # "nil"
    THEN [ err |-> HandledErr(handler, r.err), local |-> r.local, visited |-> visited ]
    ELSE IF WalkEnds(up)
         THEN [ err |-> "nil", local |-> r.local, visited |-> visited ]
         ELSE Walk(up, r.local, visited, cfg, handler)

Walk(dir, local, visited, cfg, handler) ==
    WalkLoaded(AddFile(local, PathJoin(dir, cfg)), ParentDir(dir),
               Append(visited, dir), cfg, handler)

\* the worker "no worker": what a slot holds before NewWorker succeeds
NoWorker == [ live |-> FALSE, cwd |-> << >>, local |-> << >>, global |-> << >> ]

\* NewWorker's tests on d = filepath.Clean(dir): the worker's directory, or
\* the error returned instead
WorkerDirOf(d) ==
    IF d = << >>
    THEN [ err |-> "ErrMissingDir", dir |-> << >> ]
    ELSE [ err |-> "nil", dir |-> IF IsAbs(d) THEN d ELSE PathAbs(d) ]

WorkerDir(dir) == WorkerDirOf(PathClean(dir))

\* what NewWorker returns once the walk has returned k
NewWorkerWalked(cwd, g, k) ==
    IF k.err # "nil"
    THEN [ err |-> k.err, worker |-> NoWorker, visited |-> k.visited ]
    ELSE [ err     |-> "nil",
           worker  |-> [ live |-> TRUE, cwd |-> cwd, local |-> k.local, global |-> g ],
           visited |-> k.visited ]

\* NewWorker once the worker's directory wd is known
NewWorkerIn(wd, g, cfg, handler) ==
    IF wd.err # "nil"
    THEN [ err |-> wd.err, worker |-> NoWorker, visited |-> << >> ]
    ELSE IF cfg = << >>
         THEN [ err     |-> "nil",
                worker  |-> [ live |-> TRUE, cwd |-> wd.dir,
                              local |-> << >>, global |-> g ],
                visited |-> << >> ]
         ELSE NewWorkerWalked(wd.dir, g, Walk(wd.dir, << >>, << >>, cfg, handler))

\* m.NewWorker(dir): the error, the worker (NoWorker with an error) and the
\* directories visited
NewWorkerResult(dir, g, cfg, handler) == NewWorkerIn(WorkerDir(dir), g, cfg, handler)

\* Matches once p = filepath.Clean(path): the path matched against, or
\* << >> when Matches returns false at once
MatchesTargetOf(cwd, p) ==
    IF p = << >>
    THEN << >>
    ELSE IF IsAbs(p) THEN p ELSE PathClean(PathJoin(cwd, p))

MatchesTarget(cwd, path) == MatchesTargetOf(cwd, PathClean(path))

\* the loop over [global, local] once matchAll(global, p) has returned g
MatchLocalAfter(g, local, p) == IF g # "false" THEN g ELSE MatchAll(local, p)

\* w.Matches(path) on the target p
MatchTarget(wk, p) ==
    IF p = << >>
    THEN "false"
    ELSE MatchLocalAfter(MatchAll(wk.global, p), wk.local, p)

\* w.Matches(path): "true", "false" or "panic"
WorkerMatchesResult(wk, path) == MatchTarget(wk, MatchesTarget(wk.cwd, path))

\* m.Matches(path)
MatcherMatchesResult(g, path) == MatchAll(g, PathBase(path))

(***************************************************************************)
(* State.                                                                  *)
(***************************************************************************)
VARIABLES
    config,      \* Matcher.config
    global,      \* Matcher.global
    ErrHandler,  \* Matcher.ErrHandler
    workers,     \* the Workers made by NewWorker: cwd, local, global
    ret,         \* the last call: its arguments and what it returned
    pc,          \* SpecPure: which function has been applied to input
    input,       \* SpecPure: the string given to Check and Clean
    checkRes,    \* SpecPure: Check(input)
    cleaned,     \* SpecPure: Clean(input)
    recleaned,   \* SpecPure: Clean(Clean(input))
    matchName,   \* SpecPure: the name input is matched against
    matchRes     \* SpecPure: match(input, matchName)

matcherVars == << config, global, ErrHandler, workers, ret >>
pureVars    == << pc, input, checkRes, cleaned, recleaned, matchName, matchRes >>
vars        == << config, global, ErrHandler, workers, ret,
                  pc, input, checkRes, cleaned, recleaned, matchName, matchRes >>

(***************************************************************************)
(* Inputs of the calls.                                                    *)
(***************************************************************************)
WorkerIds == { "w1" }

gStar == << "*" >>              \* valid, matches any basename
gOpen == << "[" >>              \* ErrIncompleteClass
gPath == << "a", "/", "b" >>    \* valid, but a path

\* the batches given to Matcher.Add and Worker.Add
Batches ==
    { << gStar >>, << gStar, gOpen >>, << gPath, gStar >> }

\* the directories given to NewWorker
WorkerDirs ==
    { << >>, << "/" >>, << "/", "a", "/", "b" >>, << "/", "[" >> }

\* the paths given to AddFile
FilePaths ==
    { << "l" >>, << "/", "n" >> }

\* the candidate paths given to Matches
Candidates ==
    { << >>, << "a" >>, << "x", "/", "y" >> }

NoRet ==
    [ op |-> "none", w |-> "none", arg |-> << >>, err |-> "nil", res |-> "none",
      before |-> << >>, visited |-> << >>, line |-> -1, column |-> -1,
      file |-> << >> ]

(***************************************************************************)
(* Spec: the Matcher and its Workers.                                      *)
(***************************************************************************)
PureIdle ==
    /\ pc = "idle"
    /\ input = << >>
    /\ checkRes = [ err |-> "nil", column |-> -1 ]
    /\ cleaned = << >>
    /\ recleaned = << >>
    /\ matchName = << >>
    /\ matchRes = "none"

\* m := New(config)
Init ==
    /\ config \in { << >>, ConfigName }
    /\ global = << >>
    /\ ErrHandler = "nil"
    /\ workers = [ w \in WorkerIds |-> NoWorker ]
    /\ ret = NoRet
    /\ PureIdle

\* m.ErrHandler = h
SetErrHandler(h) ==
    /\ ErrHandler # h
    /\ ErrHandler' = h
    /\ ret' = [ NoRet EXCEPT !.op = "SetErrHandler" ]
    /\ UNCHANGED << config, global, workers, pureVars >>

\* m.Add(batch...), r being what addAll(&m.global, batch) does
MatcherAddReturns(batch, r) ==
    /\ global' = r.list
    /\ ret' = [ NoRet EXCEPT !.op = "MatcherAdd", !.arg = batch,
                             !.err = r.err, !.before = global ]
    /\ UNCHANGED << config, ErrHandler, workers, pureVars >>

MatcherAdd(batch) ==
    /\ Len(global) + Len(batch) <= MaxList
    /\ MatcherAddReturns(batch, AddAll(global, batch))

\* m.Matches(path)
MatcherMatches(path) ==
    /\ ret' = [ NoRet EXCEPT !.op = "MatcherMatches", !.arg = path,
                             !.res = MatcherMatchesResult(global, path) ]
    /\ UNCHANGED << config, global, ErrHandler, workers, pureVars >>

\* w, err := m.NewWorker(dir), r being what NewWorker returns
NewWorkerReturns(w, dir, r) ==
    /\ workers' = IF r.err = "nil" THEN [ workers EXCEPT ![w] = r.worker ] ELSE workers
    /\ ret' = [ NoRet EXCEPT !.op = "NewWorker", !.w = w, !.arg = dir,
                             !.err = r.err, !.visited = r.visited,
                             !.res = IF r.worker.live THEN "worker" ELSE "nil" ]
    /\ UNCHANGED << config, global, ErrHandler, pureVars >>

NewWorker(w, dir) ==
    NewWorkerReturns(w, dir, NewWorkerResult(dir, global, config, ErrHandler))

\* w.Add(batch...), r being what addAll(&w.local, batch) does
WorkerAddReturns(w, batch, r) ==
    /\ workers' = [ workers EXCEPT ![w].local = r.list ]
    /\ ret' = [ NoRet EXCEPT !.op = "WorkerAdd", !.w = w, !.arg = batch,
                             !.err = r.err, !.before = workers[w].local ]
    /\ UNCHANGED << config, global, ErrHandler, pureVars >>

WorkerAdd(w, batch) ==
    /\ workers[w].live
    /\ Len(workers[w].local) + Len(batch) <= MaxList
    /\ WorkerAddReturns(w, batch, AddAll(workers[w].local, batch))

\* w.AddFile(path), r being what AddFile does
WorkerAddFileReturns(w, path, r) ==
    /\ workers' = [ workers EXCEPT ![w].local = r.local ]
    /\ ret' = [ NoRet EXCEPT !.op = "AddFile", !.w = w, !.arg = path,
                             !.err = r.err, !.line = r.line, !.column = r.column,
                             !.file = r.file, !.before = workers[w].local ]
    /\ UNCHANGED << config, global, ErrHandler, pureVars >>

WorkerAddFile(w, path) ==
    /\ workers[w].live
    /\ Len(workers[w].local) < MaxList
    /\ WorkerAddFileReturns(w, path, AddFile(workers[w].local, path))

\* a Reset that also drops the worker's global list
ResetDropsGlobal(w) ==
    /\ workers[w].live
    /\ workers' = [ workers EXCEPT ![w].local = << >>, ![w].global = << >> ]
    /\ ret' = [ NoRet EXCEPT !.op = "Reset", !.w = w, !.before = workers[w].local ]
    /\ UNCHANGED << config, global, ErrHandler, pureVars >>

\* w.Reset()
WorkerReset(w) ==
    /\ workers[w].live
    /\ workers' = [ workers EXCEPT ![w].local = << >> ]
    /\ ret' = [ NoRet EXCEPT !.op = "Reset", !.w = w, !.before = workers[w].local ]
    /\ UNCHANGED << config, global, ErrHandler, pureVars >>

\* a Matches that reads the Matcher's global list, not the worker's own
WorkerMatchesLive(w, path) ==
    /\ workers[w].live
    /\ ret' = [ NoRet EXCEPT !.op = "WorkerMatches", !.w = w, !.arg = path,
                             !.res = WorkerMatchesResult(
                                         [ workers[w] EXCEPT !.global = global ], path) ]
    /\ UNCHANGED << config, global, ErrHandler, workers, pureVars >>

\* w.Matches(path)
WorkerMatches(w, path) ==
    /\ workers[w].live
    /\ ret' = [ NoRet EXCEPT !.op = "WorkerMatches", !.w = w, !.arg = path,
                             !.res = WorkerMatchesResult(workers[w], path) ]
    /\ UNCHANGED << config, global, ErrHandler, workers, pureVars >>

Next ==
    \/ \E h \in Handlers : SetErrHandler(h)
    \/ \E b \in Batches : MatcherAdd(b)
    \/ \E c \in Candidates : MatcherMatches(c)
    \/ \E w \in WorkerIds, d \in WorkerDirs : NewWorker(w, d)
    \/ \E w \in WorkerIds, b \in Batches : WorkerAdd(w, b)
    \/ \E w \in WorkerIds, f \in FilePaths : WorkerAddFile(w, f)
    \/ \E w \in WorkerIds : WorkerReset(w)
    \/ \E w \in WorkerIds, c \in Candidates : WorkerMatches(w, c)

Spec == Init /\ [][Next]_vars

(***************************************************************************)
(* SpecPure: Check, Clean and match applied to every string of at most     *)
(* MaxLen characters of PureAlphabet.                                      *)
(***************************************************************************)
PureInputs == UNION { [ 1..n -> PureAlphabet ] : n \in 0..MaxLen }

\* the names an accepted pattern is matched against
MatchNames == { << "a" >>, << "a", "b" >> }

MatcherIdle ==
    /\ config = << >>
    /\ global = << >>
    /\ ErrHandler = "nil"
    /\ workers = [ w \in WorkerIds |-> NoWorker ]
    /\ ret = NoRet

InitPure ==
    /\ input \in PureInputs
    /\ pc = "start"
    /\ checkRes = [ err |-> "nil", column |-> -1 ]
    /\ cleaned = << >>
    /\ recleaned = << >>
    /\ matchName = << >>
    /\ matchRes = "none"
    /\ MatcherIdle

\* err := Check(input)
DoCheck ==
    /\ pc = "start"
    /\ checkRes' = Check(input)
    /\ pc' = "checked"
    /\ UNCHANGED << input, cleaned, recleaned, matchName, matchRes, matcherVars >>

\* match(input, name), for an input that add or AddFile stores: Check
\* returned nil for it
DoMatch(name) ==
    /\ pc = "checked"
    /\ checkRes.err = "nil"
    /\ matchName' = name
    /\ matchRes' = Match(input, name)
    /\ pc' = "matched"
    /\ UNCHANGED << input, checkRes, cleaned, recleaned, matcherVars >>

\* s := Clean(input)
DoClean ==
    /\ pc = "start"
    /\ cleaned' = Clean(input)
    /\ pc' = "cleaned"
    /\ UNCHANGED << input, checkRes, recleaned, matchName, matchRes, matcherVars >>

\* Clean(s)
DoCleanAgain ==
    /\ pc = "cleaned"
    /\ recleaned' = Clean(cleaned)
    /\ pc' = "recleaned"
    /\ UNCHANGED << input, checkRes, cleaned, matchName, matchRes, matcherVars >>

NextPure ==
    \/ DoCheck
    \/ \E n \in MatchNames : DoMatch(n)
    \/ DoClean
    \/ DoCleanAgain

SpecPure == InitPure /\ [][NextPure]_vars

(***************************************************************************)
(* The documented grammar (the doc comment of Check), as a tag per         *)
(* character: "star" is an unescaped '*' outside a character class.        *)
(***************************************************************************)
RECURSIVE GrammarTags(_, _, _, _)
GrammarTags(p, i, inClass, n) ==
    IF i > Len(p)
    THEN << >>
    ELSE IF p[i] = "\\"
         THEN IF i = Len(p)
              THEN << "esc" >>
              ELSE << "esc", "escaped" >>
                   \o GrammarTags(p, i + 2, inClass, IF inClass THEN n + 1 ELSE n)
         ELSE IF inClass
              THEN IF p[i] = "]" /\ n > 0
                   THEN << "close" >> \o GrammarTags(p, i + 1, FALSE, 0)
                   ELSE << "member" >> \o GrammarTags(p, i + 1, TRUE, n + 1)
              ELSE CASE p[i] = "[" -> << "open" >> \o GrammarTags(p, i + 1, TRUE, 0)
                     [] p[i] = "*" -> << "star" >> \o GrammarTags(p, i + 1, FALSE, 0)
                     [] OTHER      -> << "lit" >> \o GrammarTags(p, i + 1, FALSE, 0)

\* p has two consecutive unescaped stars outside a class, and a character
\* after them
StarPairFollowed(p) ==
    \E i \in 1..(Len(p) - 2) :
        /\ GrammarTags(p, 1, FALSE, 0)[i] = "star"
        /\ GrammarTags(p, 1, FALSE, 0)[i + 1] = "star"

(***************************************************************************)
(* Claims.                                                                 *)
(***************************************************************************)
\* the list the last Add call appended to
AddTarget == IF ret.op = "MatcherAdd" THEN global ELSE workers[ret.w].local

IsAdd == ret.op \in { "MatcherAdd", "WorkerAdd" }

\* add rejects glob g
Rejected(g) == ~CheckOk(g) \/ ContainsSep(g)

\* k is the index of the first glob of the batch that add rejects
FirstRejected(batch, k) ==
    /\ Rejected(batch[k])
    /\ \A j \in 1..(k - 1) : ~Rejected(batch[j])

\* C1 (SpecPure): a pattern for which Check returned nil never makes
\* filepath.Match return an error, so match() never panics on it.
C1_AcceptedNeverPanics == pc = "matched" => matchRes # "panic"

\* C2 (SpecPure): Clean is idempotent, Clean(Clean(s)) = Clean(s).
C2_CleanIdempotent == pc = "recleaned" => recleaned = cleaned

C4_EmptyPathNeverMatches ==
    (ret.op \in { "WorkerMatches", "MatcherMatches" } /\ ret.arg = << >>)
        => ret.res = "false"

\* the directories from dir up to and including the root
RECURSIVE AncestorChain(_)
AncestorChain(dir) ==
    IF dir = << "/" >>
    THEN << dir >>
    ELSE << dir >> \o AncestorChain(ParentDir(dir))

\* C5 (Spec): with a config name set, NewWorker loads the config file of
\* the worker's directory, then of each parent, the root being the last.
C5_WalkReachesRoot ==
    (ret.op = "NewWorker" /\ ret.err = "nil" /\ config # << >>)
        => ret.visited = AncestorChain(workers[ret.w].cwd)

\* C6 (SpecPure): Check rejects every pattern with two consecutive
\* unescaped stars outside a class that are followed by a character.
C6_DualStarRejected ==
    (pc = "checked" /\ StarPairFollowed(input)) => checkRes.err # "nil"

\* the candidate made absolute against cwd
AbsCandidate(cwd, c) == IF IsAbs(c) THEN PathClean(c) ELSE PathJoin(cwd, c)

\* pattern p matches the absolute candidate c: its last element when p has
\* no separator, the whole of it otherwise
PatternMatches(p, c) ==
    FilepathMatch(p, IF ContainsSep(p) THEN c ELSE PathBase(c)).matched

\* C7 (Spec): for a non-empty candidate, Worker.Matches returns true if
\* and only if some pattern of the global or the local list matches it,
\* whatever the order of the patterns.
C7_MatchesIsOrOverPatterns ==
    (ret.op = "WorkerMatches" /\ ret.arg # << >>) =>
        ret.res = IF \E i \in 1..Len(workers[ret.w].global \o workers[ret.w].local) :
                        PatternMatches((workers[ret.w].global \o workers[ret.w].local)[i],
                                       AbsCandidate(workers[ret.w].cwd, ret.arg))
                  THEN "true"
                  ELSE "false"

\* C8 (Spec): NewWorker("") fails with ErrMissingDir and returns no worker.
C8_EmptyDirIsMissingDir ==
    (ret.op = "NewWorker" /\ ret.arg = << >>)
        => (ret.err = "ErrMissingDir" /\ ret.res = "nil")

\* C9 (Spec): every string in a worker's local list is accepted by Check.
C9_LocalPatternsPassCheck ==
    \A w \in WorkerIds :
        \A i \in 1..Len(workers[w].local) : CheckOk(workers[w].local[i])

\* C10 (Spec): every glob in the Matcher's global list, and every glob a
\* Worker.Add call appended, is accepted by Check and has no '/'; a glob
\* that passes Check but has a '/' makes Add return ErrGlobIsPath and is
\* not appended.
C10_AddedGlobsAreBasenames ==
    /\ \A i \in 1..Len(global) : ~Rejected(global[i])
    /\ IsAdd =>
          /\ \A i \in (Len(ret.before) + 1)..Len(AddTarget) : ~Rejected(AddTarget[i])
          /\ \A k \in 1..Len(ret.arg) :
                (FirstRejected(ret.arg, k) /\ CheckOk(ret.arg[k])) =>
                    /\ ret.err = "ErrGlobIsPath"
                    /\ AddTarget = ret.before \o SubSeq(ret.arg, 1, k - 1)

\* C10 witness: Add has just rejected a path glob with ErrGlobIsPath while
\* the global list holds a glob.
C10_Witness ==
    /\ IsAdd
    /\ ret.err = "ErrGlobIsPath"
    /\ Len(global) > 0

\* the lines of the file AddFile(path) reads, and the directory it joins
\* in front of path patterns
LinesOf(path) == ReadFile(PathAbs(path)).lines

BaseOf(path) == PathDir(PathAbs(path))

\* line k of lines is non-empty once normalized and fails Check
BadLine(lines, k) ==
    /\ Clean(lines[k]) # << >>
    /\ ~CheckOk(Clean(lines[k]))

\* the patterns of the non-blank lines 1..k of lines, in file order
RECURSIVE PatternsUpTo(_, _, _)
PatternsUpTo(lines, base, k) ==
    IF k = 0
    THEN << >>
    ELSE IF Clean(lines[k]) = << >>
         THEN PatternsUpTo(lines, base, k - 1)
         ELSE Append(PatternsUpTo(lines, base, k - 1),
                     StoredPattern(base, Clean(lines[k])))

\* C11 (Spec): when AddFile(path) reads a file whose first line that is
\* non-empty once normalized and fails Check is line k (1-based, comment
\* and blank lines counted), it returns a BadPatternError with Line = k and
\* File = path, and the local list has gained exactly the patterns of the
\* valid lines before line k, in file order.
C11_BadLineStopsLoad ==
    (ret.op = "AddFile" /\ ReadFile(PathAbs(ret.arg)).err = "nil") =>
        \A k \in 1..Len(LinesOf(ret.arg)) :
            (BadLine(LinesOf(ret.arg), k)
              /\ \A j \in 1..(k - 1) : ~BadLine(LinesOf(ret.arg), j)) =>
                /\ ret.err = Check(Clean(LinesOf(ret.arg)[k])).err
                /\ ret.line = k
                /\ ret.file = ret.arg
                /\ workers[ret.w].local =
                       ret.before \o PatternsUpTo(LinesOf(ret.arg), BaseOf(ret.arg), k - 1)

\* C11 witness: AddFile stopped at line 4 of a file whose first two lines
\* are a comment and a blank line, having loaded the pattern of line 3.
C11_Witness ==
    /\ ret.op = "AddFile"
    /\ ret.line = 4
    /\ Len(workers[ret.w].local) = Len(ret.before) + 1

\* the error of loading the config file of directory d
LoadErr(d) == AddFile(<< >>, PathJoin(d, config)).err

\* the load fails in d, and not because the file does not exist
LoadFails(d) == LoadErr(d) # "nil" /\ ~IsNotExist(LoadErr(d))

\* C12 (Spec): in NewWorker's walk, a config load that fails for another
\* reason than a missing file goes to ErrHandler when one is set.  If the
\* handler returns an error, the walk stops at that directory and
\* NewWorker returns that error and no worker.  If it returns nil, or
\* none is set, the walk goes on with the parent directory, up to the top
\* of the tree, and NewWorker returns a worker.
C12_HandlerDecidesLoadFailure ==
    (ret.op = "NewWorker" /\ Len(ret.visited) > 0) =>
        IF ErrHandler = "fail" /\ \E i \in 1..Len(ret.visited) : LoadFails(ret.visited[i])
        THEN /\ LoadFails(ret.visited[Len(ret.visited)])
             /\ \A i \in 1..(Len(ret.visited) - 1) : ~LoadFails(ret.visited[i])
             /\ ret.err = LoadErr(ret.visited[Len(ret.visited)])
             /\ ret.res = "nil"
        ELSE /\ ret.err = "nil"
             /\ ret.res = "worker"
             /\ \A i \in 1..(Len(ret.visited) - 1) :
                    ret.visited[i + 1] = ParentDir(ret.visited[i])
             /\ ParentDir(ret.visited[Len(ret.visited)]) = << "/" >>

\* C12 witness: the handler returned the permission error of /a/b/c and
\* NewWorker gave it back with no worker.
C12_Witness ==
    /\ ret.op = "NewWorker"
    /\ ErrHandler = "fail"
    /\ ret.err = "ErrPermission"
    /\ ret.res = "nil"
    /\ ret.visited = << << "/", "a", "/", "b" >> >>

\* some pattern of list matches the absolute candidate c
SomeMatches(list, c) == \E i \in 1..Len(list) : PatternMatches(list[i], c)

\* this step is the call w.Reset()
ResetStep == ret'.op = "Reset"

\* this step is the first call on the worker after its Reset
AfterReset(op) == ret.op = "Reset" /\ ret'.op = op /\ ret'.w = ret.w

TagsOf(p) == GrammarTags(p, 1, FALSE, 0)

\* p ends inside a class: an unescaped '[' opened one that no ']' closed
EndsInClass(p) ==
    \E i \in 1..Len(p) :
        /\ TagsOf(p)[i] = "open"
        /\ \A j \in (i + 1)..Len(p) : TagsOf(p)[j] # "close"

\* p ends in a backslash that escapes nothing
DanglingEscape(p) == Len(p) > 0 /\ TagsOf(p)[Len(p)] = "esc"

\* the errors Check returns from inside its loop, on the rune that raised them
RaisedInLoop ==
    { "ErrUnexpectedRune", "ErrNegativeRange", "ErrDualStar", "ErrEmptyClass" }

\* C14 (SpecPure): when the input ends inside a class that an unescaped
\* '[' opened (here as the first character), no character raised an error
\* before and the input does not end in a dangling backslash, Check
\* returns ErrIncompleteClass, whatever the last member of the class was.
C14_OpenClassIsIncomplete ==
    ( /\ pc = "checked"
      /\ Len(input) > 0
      /\ input[1] = "["
      /\ EndsInClass(input)
      /\ ~DanglingEscape(input)
      /\ checkRes.err \notin RaisedInLoop )
        => checkRes.err = "ErrIncompleteClass"

\* the errors Check returns after its loop, at the end of the input
RaisedAtEnd ==
    { "ErrEmptyGlob", "ErrIncompleteClass", "ErrTrailingEscape", "ErrTrailingWhitespace" }

\* the first n characters of p
Prefix(p, n) == SubSeq(p, 1, n)

RECURSIVE SkipSpaces(_, _)
SkipSpaces(p, i) ==
    IF i <= Len(p) /\ IsSpace(p[i]) THEN SkipSpaces(p, i + 1) ELSE i

\* C16 (SpecPure): the first character after a run of unescaped whitespace
\* is classified as the Regular state classifies it; so a pattern that
\* starts with such a run gets the verdict of the pattern without the run
\* (a space and '[': ErrIncompleteClass, a space and a lone backslash:
\* ErrTrailingEscape).
C16_WhitespaceEndDispatches ==
    ( /\ pc = "checked"
      /\ Len(input) > 0
      /\ IsSpace(input[1])
      /\ SkipSpaces(input, 1) <= Len(input) )
        => checkRes.err = Check(Drop(input, SkipSpaces(input, 1) - 1)).err

\* the length of s without its unescaped trailing whitespace run and
\* without a lone trailing backslash: keep is the index of the last
\* character seen so far that is kept whatever follows
RECURSIVE KeptLength(_, _, _)
KeptLength(s, i, keep) ==
    IF i > Len(s)
    THEN keep
    ELSE IF s[i] = "\\"
         THEN IF i = Len(s) THEN keep ELSE KeptLength(s, i + 2, i + 1)
         ELSE IF IsSpace(s[i])
              THEN KeptLength(s, i + 1, keep)
              ELSE KeptLength(s, i + 1, i)

\* C17 (SpecPure): for a line s that does not start with '#', Clean(s) is
\* s without its unescaped trailing whitespace run and without a lone
\* trailing backslash: every other character is kept, in order, also the
\* character that ends an internal whitespace run.
C17_CleanKeepsCharacters ==
    (pc = "cleaned" /\ (input = << >> \/ input[1] # "#"))
        => cleaned = Prefix(input, KeptLength(input, 1, 0))

(***************************************************************************)
(* SpecClass: Check applied to every string made of '[' and at most        *)
(* MaxClassLen characters of ClassAlphabet.                                *)
(***************************************************************************)
ClassInputs ==
    { << "[" >> \o body :
          body \in UNION { [ 1..n -> ClassAlphabet ] : n \in 0..MaxClassLen } }

InitClass ==
    /\ input \in ClassInputs
    /\ pc = "start"
    /\ checkRes = [ err |-> "nil", column |-> -1 ]
    /\ cleaned = << >>
    /\ recleaned = << >>
    /\ matchName = << >>
    /\ matchRes = "none"
    /\ MatcherIdle

NextClass == DoCheck

SpecClass == InitClass /\ [][NextClass]_vars

(***************************************************************************)
(* The documented grammar as a recognizer: mode is where the pattern read  *)
(* so far stands in the grammar, lo the class member read last, which a    *)
(* following '-' makes the low bound of a range.                           *)
(***************************************************************************)
GrammarInit == [ mode |-> "out", lo |-> "" ]

\* the first character-range of a class starts with c
GrammarMember(c) ==
    CASE c = "]" \/ c = "-" -> [ mode |-> "bad", lo |-> "" ]
      [] c = "\\"           -> [ mode |-> "loEsc", lo |-> "" ]
      [] OTHER              -> [ mode |-> "lo", lo |-> c ]

\* c is read where a character-range may start or the class may end
GrammarInClass(g, c) ==
    CASE c = "]"  -> [ mode |-> "out", lo |-> "" ]
      [] c = "\\" -> [ mode |-> "loEsc", lo |-> "" ]
      [] OTHER    -> [ mode |-> "lo", lo |-> c ]

\* c is the high bound of the range whose low bound is g.lo
GrammarHi(g, c) ==
    IF CodePoint(c) < CodePoint(g.lo)
    THEN [ mode |-> "bad", lo |-> "" ]
    ELSE [ mode |-> "hi", lo |-> "" ]

GrammarStep(g, c) ==
    CASE g.mode = "out" ->
            [ mode |-> IF c = "\\" THEN "esc" ELSE IF c = "[" THEN "open" ELSE "out",
              lo |-> "" ]
      [] g.mode = "esc"   -> [ mode |-> "out", lo |-> "" ]
      [] g.mode = "open"  -> IF c = "^" THEN [ mode |-> "neg", lo |-> "" ]
                                        ELSE GrammarMember(c)
      [] g.mode = "neg"   -> GrammarMember(c)
      [] g.mode = "lo"    -> IF c = "-" THEN [ mode |-> "dash", lo |-> g.lo ]
                                        ELSE GrammarInClass(g, c)
      [] g.mode = "loEsc" -> [ mode |-> "lo", lo |-> c ]
      [] g.mode = "dash"  -> CASE c = "\\"           -> [ mode |-> "hiEsc", lo |-> g.lo ]
                               [] c = "]" \/ c = "-" -> [ mode |-> "bad", lo |-> "" ]
                               [] OTHER              -> GrammarHi(g, c)
      [] g.mode = "hiEsc" -> GrammarHi(g, c)
      [] g.mode = "hi"    -> IF c = "-" THEN [ mode |-> "bad", lo |-> "" ]
                                        ELSE GrammarInClass(g, c)
      [] OTHER            -> [ mode |-> "bad", lo |-> "" ]

RECURSIVE GrammarLoop(_, _, _)
GrammarLoop(p, i, g) ==
    IF i > Len(p) THEN g ELSE GrammarLoop(p, i + 1, GrammarStep(g, p[i]))

\* where the grammar stands after p
GrammarRun(p) == GrammarLoop(p, 1, GrammarInit)

\* p is a pattern of the grammar
InGrammar(p) == GrammarRun(p).mode = "out"

\* the last character of p is the unescaped high bound of a range
EndsWithHi(p) ==
    /\ Len(p) > 1
    /\ GrammarRun(Prefix(p, Len(p) - 1)).mode = "dash"
    /\ p[Len(p)] \notin { "\\", "-", "]" }

\* the low bound of the range whose high bound ends p
LoOfLast(p) == GrammarRun(Prefix(p, Len(p) - 1)).lo

\* C18 (SpecClass): when Check reads the high bound hi of a range, it
\* returns ErrNegativeRange exactly when hi's code point is below that of
\* lo, the class member just before the '-', escaped or not, first in the
\* class or not.
C18_NegativeRangeComparesLo ==
    ( /\ pc = "checked"
      /\ EndsWithHi(input)
      /\ (checkRes.err = "nil" \/ checkRes.column = Len(input) - 1) )
        => ( checkRes.err = "ErrNegativeRange"
               <=> CodePoint(input[Len(input)]) < CodePoint(LoOfLast(input)) )

\* p does not end in unescaped whitespace
NoTrailingSpace(p) ==
    ~(IsSpace(p[Len(p)]) /\ TagsOf(p)[Len(p)] = "lit")

\* p has no two consecutive unescaped stars
NoStarPair(p) ==
    ~ \E i \in 1..(Len(p) - 1) : TagsOf(p)[i] = "star" /\ TagsOf(p)[i + 1] = "star"

\* C19 (SpecClass): Check returns nil for every non-empty pattern of the
\* documented grammar that has no unescaped trailing whitespace and no two
\* consecutive unescaped stars, also when an escaped character is the low
\* or the high bound of a range.
C19_GrammarPatternsAccepted ==
    ( /\ pc = "checked"
      /\ Len(input) > 0
      /\ InGrammar(input)
      /\ NoTrailingSpace(input)
      /\ NoStarPair(input) )
        => checkRes.err = "nil"

(***************************************************************************)
(* SpecShare: one Matcher without config name and two Workers made in the  *)
(* root directory, with the calls interleaved in every order.  A slice is  *)
(* modelled by the list of its elements: the worker's global is a copy of  *)
(* the Matcher's slice header, and append writes only at or beyond the     *)
(* length of the slice it extends, never an element a copy can see.        *)
(***************************************************************************)
ShareWorkerIds == { "w1", "w2" }

ShareDir == << "/" >>

ShareFile == << "/", "a", "/", "l" >>

ShareCandidates == { << "a" >>, << "v" >> }

InitShare ==
    /\ config = << >>
    /\ global = << >>
    /\ ErrHandler = "nil"
    /\ workers = [ w \in ShareWorkerIds |-> NoWorker ]
    /\ ret = NoRet
    /\ PureIdle

NextShare ==
    \/ MatcherAdd(<< gStar >>)
    \/ \E w \in ShareWorkerIds : NewWorker(w, ShareDir)
    \/ \E w \in ShareWorkerIds : WorkerAdd(w, << gStar >>)
    \/ \E w \in ShareWorkerIds : WorkerAddFile(w, ShareFile)
    \/ \E w \in ShareWorkerIds : WorkerReset(w)
    \/ \E w \in ShareWorkerIds, c \in ShareCandidates : WorkerMatches(w, c)

SpecShare == InitShare /\ [][NextShare]_vars

\* this step is a call that makes worker ret'.w or is made on it
WorkerStep ==
    ret'.op \in { "NewWorker", "WorkerAdd", "AddFile", "Reset", "WorkerMatches" }

\* C20 (SpecShare): a worker's global list is the Matcher's list at the
\* time of NewWorker and a later Matcher.Add changes no worker; a Matches
\* that returns is true exactly when a pattern of the worker's own global
\* or local list matches, so Matcher.Add does not change what an existing
\* worker matches; a call that makes or uses one worker changes neither
\* the Matcher's global list nor any other worker.
C20_WorkerViewIsFixed ==
    [][ /\ (ret'.op = "NewWorker" /\ ret'.err = "nil") =>
              workers'[ret'.w].global = global
        /\ ret'.op = "MatcherAdd" =>
              \A w \in DOMAIN workers : workers'[w] = workers[w]
        /\ (ret'.op = "WorkerMatches" /\ ret'.res # "panic") =>
              (ret'.res = "true" <=>
                  SomeMatches(workers[ret'.w].global \o workers[ret'.w].local,
                              AbsCandidate(workers[ret'.w].cwd, ret'.arg)))
        /\ WorkerStep =>
              /\ global' = global
              /\ \A v \in DOMAIN workers \ { ret'.w } : workers'[v] = workers[v]
      ]_vars

\* C20 witness: Matcher.Add has just been called while two workers made at
\* different times hold different global lists.
C20_Witness ==
    /\ ret.op = "MatcherAdd"
    /\ ret.err = "nil"
    /\ workers["w1"].live
    /\ workers["w2"].live
    /\ workers["w1"].global # workers["w2"].global
    /\ workers["w2"].global # global

=============================================================================
